---- MODULE Spec2Model ----
(***************************************************************************)
(* Model of the two bulk mail delivery programs of the repository:         *)
(*   file_delivery_script.py  (FileDeliveryService + main)   prog = "fds"  *)
(*   email_sender.py          (module functions + main)      prog = "es"   *)
(* A text line is a sequence of one-character strings.  The SMTP library   *)
(* is the environment: each call either returns, is rejected by the server *)
(* (the connection stays as it was) or finds the connection lost (the      *)
(* library closes the socket before raising).                              *)
(***************************************************************************)
EXTENDS Integers, Sequences, FiniteSets, TLC

\* ------------------------------------------------------------------ bounds
\* most lines in a recipient source of the loader specification
MaxLines == 3
\* most lines in a recipient source of a whole delivery run
MaxRunLines == 3
\* most changes of the file on disk by other processes during one run
MaxFileChanges == 1

\* ------------------------------------------------------------ text helpers
Whitespace == {" ", "\n"}

RECURSIVE lstrip(_)
lstrip(s) ==
    IF s = <<>> THEN <<>>
    ELSE IF Head(s) \in Whitespace THEN lstrip(Tail(s)) ELSE s

RECURSIVE rstrip(_)
rstrip(s) ==
    IF s = <<>> THEN <<>>
    ELSE IF s[Len(s)] \in Whitespace THEN rstrip(SubSeq(s, 1, Len(s) - 1)) ELSE s

\* str.strip(): whitespace removed from both ends
strip(s) == rstrip(lstrip(s))

\* c in s
contains(s, c) == \E i \in 1..Len(s) : s[i] = c

\* s.startswith(c)
startswith(s, c) == Len(s) > 0 /\ s[1] = c

\* iterating a text file yields each line with its terminator
readlines(src) == [i \in 1..Len(src) |-> src[i] \o <<"\n">>]

\* --------------------------------------------------------- recipient lines
A_X == <<"a", "@", "x">>
B_X == <<"b", "@", "x">>
PADDED_A_X == <<" ", "a", "@", "x", " ">>
COMMENT == <<"#", "n", "o", "t", "e">>
COMMENT_AT == <<" ", "#", "a", "@", "x">>
BLANK == <<>>
SPACES == <<" ", " ">>
BADLINE == <<"a", "b">>
ONLY_AT == <<"@">>
NO_DOMAIN == <<"a", "@">>
NO_LOCAL == <<"@", "b">>
TWO_AT == <<"a", "@", "@", "b">>

Lines == {A_X, B_X, PADDED_A_X, COMMENT, COMMENT_AT, BLANK, SPACES, BADLINE,
          ONLY_AT, NO_DOMAIN, NO_LOCAL, TWO_AT}

RunLines == {A_X, B_X, BADLINE}

SeqsUpTo(S, n) == UNION {[1..k -> S] : k \in 0..n}

LoadSources == SeqsUpTo(Lines, MaxLines)
RunSources == SeqsUpTo(RunLines, MaxRunLines)

\* ------------------------------------------------------------------ loaders
\* file_delivery_script.py: the line is stripped, blank and '#' lines are
\* skipped, a line with '@' is appended, any other line is only logged
RECURSIVE fds_collect(_)
fds_collect(ls) ==
    IF ls = <<>> THEN <<>>
    ELSE LET email == strip(Head(ls))
             rest == fds_collect(Tail(ls))
         IN IF email # <<>> /\ ~startswith(email, "#")
            THEN IF contains(email, "@") THEN <<email>> \o rest ELSE rest
            ELSE rest

load_delivery_list(src) == fds_collect(readlines(src))

\* email_sender.py: [line.strip() for line in f if line.strip() and '@' in line]
RECURSIVE es_collect(_)
es_collect(ls) ==
    IF ls = <<>> THEN <<>>
    ELSE LET line == Head(ls)
             rest == es_collect(Tail(ls))
         IN IF strip(line) # <<>> /\ contains(line, "@")
            THEN <<strip(line)>> \o rest
            ELSE rest

\* the list load_recipients builds; it raises ValueError when this is empty
load_recipients(src) == es_collect(readlines(src))

\* -------------------------------------------------------------------- state
VARIABLES
    prog,             \* which program runs: "fds" or "es"
    pc,               \* position of main
    credsOk,          \* sender address and password are configured
    source,           \* the recipient source: lines of text
    fileState,        \* the file to send, as the file system has it now
    fileChanges,      \* changes of the file by other processes so far
    fileBytes,        \* the bytes the file holds now
    fileReads,        \* times the program has read the bytes of the file
    msgBytes,         \* attachment of the message send_email is working on
    sentBytes,        \* attachment carried by each message of sent
    sourceRead,       \* the recipient source has been opened and read
    delivery_list,    \* delivery_list (fds) / recipients (es)
    idx,              \* position of the for loop in delivery_list, 1-based
    successful,       \* results['successful'] (fds)
    failed,           \* results['failed'] (fds)
    total,            \* results['total'] (fds)
    successful_sends, \* successful_sends (es)
    failed_sends,     \* failed_sends (es)
    session,          \* the connection behind the current server object
    leaked,           \* connections abandoned while still open
    connects,         \* smtplib.SMTP(...) calls
    quits,            \* server.quit() calls that returned
    transportOps,     \* calls made on the transport, whatever their result
    attempted,        \* recipients the loop has started on, in order
    sent,             \* recipients whose sendmail call returned, in order
    result,           \* how main ended
    exitCode          \* the code handed to sys.exit, -1 while running

vars == <<prog, pc, credsOk, source, fileState, fileChanges, fileBytes,
          fileReads, msgBytes, sentBytes, sourceRead,
          delivery_list, idx, successful, failed, total, successful_sends,
          failed_sends, session, leaked, connects, quits, transportOps,
          attempted, sent, result, exitCode>>

inputVars == <<prog, credsOk, source>>
fileVars == <<fileState, fileChanges, fileBytes>>
attachVars == <<fileReads, msgBytes, sentBytes>>
fdsVars == <<successful, failed, total>>
esVars == <<successful_sends, failed_sends>>
sessionVars == <<session, leaked, connects, quits, transportOps>>
loopVars == <<delivery_list, idx, attempted, sent>>

FileStates == {"ok", "missing", "notfile", "unreadable"}
FileContents == {"v1", "v2"}
SessionStates == {"Closed", "Opening", "Authenticated"}
\* what a call on the transport can do
Outcomes == {"ok", "rejected", "lost"}

\* sys.exit(code), or main returning to the sys.exit of the last line
Exit(code, how) ==
    /\ pc' = "done"
    /\ exitCode' = code
    /\ result' = how

\* the connection after a call on it failed: a lost connection is closed by
\* the library, a server rejection leaves it as it was
AfterFailure(s, outcome) == IF outcome = "lost" THEN "Closed" ELSE s

InitRun ==
    /\ prog \in {"fds", "es"}
    /\ credsOk \in BOOLEAN
    /\ source \in RunSources
    /\ fileState \in FileStates
    /\ fileChanges = 0
    /\ fileBytes = "v1"
    /\ fileReads = 0
    /\ msgBytes = "none"
    /\ sentBytes = <<>>
    /\ sourceRead = FALSE
    /\ delivery_list = <<>>
    /\ idx = 1
    /\ successful = <<>>
    /\ failed = <<>>
    /\ total = 0
    /\ successful_sends = 0
    /\ failed_sends = 0
    /\ session = "Closed"
    /\ leaked = 0
    /\ connects = 0
    /\ quits = 0
    /\ transportOps = 0
    /\ attempted = <<>>
    /\ sent = <<>>
    /\ result = "running"
    /\ exitCode = -1

Init ==
    /\ InitRun
    /\ pc = IF prog = "fds" THEN "validate_file" ELSE "validate_config"

\* ------------------------------------------------------- shared code shapes
\* "if not delivery_list:" of file_delivery_script.main
no_recipients_unchecked(list) == FALSE

no_recipients(list) == list = <<>>

\* the for loop of send_file goes to the next recipient whether the body
\* returned or its except Exception clause ran
next_recipient_break(i, n, raised) == IF raised THEN n + 1 ELSE i + 1

next_recipient(i, n, raised) == i + 1

\* results['failed'].append({'email': recipient, 'error': str(e)})
record_failed_dropped(f, recipient, e) == f

record_failed(f, recipient, e) == Append(f, [email |-> recipient, error |-> e])

\* part.set_payload(attachment.read()): the bytes a message gets are the
\* ones the file holds while that message is composed
attachment_bytes_cached(current, first) == first

attachment_bytes(current, first) == current

\* results['successful'].append(recipient)
record_successful_first(ok, recipient) == <<recipient>> \o ok

record_successful(ok, recipient) == Append(ok, recipient)

\* the connection once server.login(...) has returned
after_login_skipped(s) == s

after_login(s) == "Authenticated"

\* the connection once server.quit() has been called on it
after_quit_skipped(s) == s

after_quit(s) == "Closed"

\* ------------------------------------------- file_delivery_script.py: main
\* FileDeliveryService.validate_file: exists, is a regular file, opens
validate_file(f) == f = "ok"

\* main: "Validate file"
fds_validate ==
    /\ prog = "fds" /\ pc = "validate_file"
    /\ IF validate_file(fileState)
       THEN pc' = "load_delivery_list" /\ UNCHANGED <<result, exitCode>>
       ELSE Exit(1, "validation")
    /\ UNCHANGED <<inputVars, attachVars, fileVars, sourceRead, loopVars, fdsVars, esVars,
                   sessionVars>>

\* main: "Load delivery list" and the check for an empty list
fds_load ==
    /\ prog = "fds" /\ pc = "load_delivery_list"
    /\ sourceRead' = TRUE
    /\ delivery_list' = load_delivery_list(source)
    /\ IF no_recipients(delivery_list')
       THEN Exit(1, "validation")
       ELSE pc' = "send_file" /\ UNCHANGED <<result, exitCode>>
    /\ UNCHANGED <<inputVars, attachVars, fileVars, idx, attempted, sent, fdsVars, esVars,
                   sessionVars>>

\* send_file: the results dictionary and the credentials check; the
\* ValueError reaches the except Exception clause of main
send_file_begin ==
    /\ prog = "fds" /\ pc = "send_file"
    /\ successful' = <<>>
    /\ failed' = <<>>
    /\ total' = Len(delivery_list)
    /\ IF credsOk
       THEN pc' = "connect" /\ UNCHANGED <<result, exitCode>>
       ELSE Exit(1, "aborted")
    /\ UNCHANGED <<inputVars, attachVars, fileVars, sourceRead, loopVars, esVars,
                   sessionVars>>

\* send_file: server = smtplib.SMTP(host, port); a failed constructor leaves
\* no connection; any exception is logged, re-raised and ends main
send_file_connect ==
    /\ prog = "fds" /\ pc = "connect"
    /\ connects' = connects + 1
    /\ transportOps' = transportOps + 1
    /\ \E o \in Outcomes :
         IF o = "ok"
         THEN /\ session' = "Opening"
              /\ pc' = "starttls"
              /\ UNCHANGED <<result, exitCode>>
         ELSE /\ session' = "Closed"
              /\ Exit(1, "aborted")
    /\ UNCHANGED <<inputVars, attachVars, fileVars, sourceRead, loopVars, fdsVars, esVars,
                   leaked, quits>>

\* send_file: server.starttls()
send_file_starttls ==
    /\ prog = "fds" /\ pc = "starttls"
    /\ transportOps' = transportOps + 1
    /\ \E o \in Outcomes :
         IF o = "ok"
         THEN /\ pc' = "login"
              /\ UNCHANGED <<session, result, exitCode>>
         ELSE /\ session' = AfterFailure(session, o)
              /\ Exit(1, "aborted")
    /\ UNCHANGED <<inputVars, attachVars, fileVars, sourceRead, loopVars, fdsVars, esVars,
                   leaked, connects, quits>>

\* send_file: server.login(sender_email, sender_password)
send_file_login ==
    /\ prog = "fds" /\ pc = "login"
    /\ transportOps' = transportOps + 1
    /\ \E o \in Outcomes :
         IF o = "ok"
         THEN /\ session' = after_login(session)
              /\ pc' = "loop"
              /\ UNCHANGED <<result, exitCode>>
         ELSE /\ session' = AfterFailure(session, o)
              /\ Exit(1, "aborted")
    /\ UNCHANGED <<inputVars, attachVars, fileVars, sourceRead, loopVars, fdsVars, esVars,
                   leaked, connects, quits>>

\* send_file: one pass of "for recipient in delivery_list": the message is
\* composed (the file is opened and read again), sent, and the outcome is
\* appended to results; except Exception keeps the loop going
send_file_iter ==
    /\ prog = "fds" /\ pc = "loop" /\ idx <= Len(delivery_list)
    /\ LET recipient == delivery_list[idx]
           n == Len(delivery_list)
           first == IF sentBytes = <<>> THEN fileBytes ELSE sentBytes[1]
           payload == attachment_bytes(fileBytes, first)
       IN /\ attempted' = Append(attempted, recipient)
          /\ IF fileState # "ok"
             THEN /\ failed' = record_failed(failed, recipient, "attachment")
                  /\ idx' = next_recipient(idx, n, TRUE)
                  /\ UNCHANGED <<successful, sent, session, transportOps,
                                 fileReads, sentBytes>>
             ELSE /\ fileReads' = fileReads + 1
                  /\ transportOps' = transportOps + 1
                  /\ \E o \in Outcomes :
                       /\ session = "Closed" => o = "lost"
                       /\ IF o = "ok"
                          THEN /\ successful' = record_successful(successful, recipient)
                               /\ sent' = Append(sent, recipient)
                               /\ sentBytes' = Append(sentBytes, payload)
                               /\ idx' = next_recipient(idx, n, FALSE)
                               /\ UNCHANGED <<failed, session>>
                          ELSE /\ failed' = record_failed(failed, recipient, o)
                               /\ session' = AfterFailure(session, o)
                               /\ idx' = next_recipient(idx, n, TRUE)
                               /\ UNCHANGED <<successful, sent, sentBytes>>
    /\ UNCHANGED <<inputVars, msgBytes, fileVars, sourceRead, delivery_list,
                   total, esVars, leaked, connects, quits, pc, result,
                   exitCode>>

\* send_file: server.quit() after the loop, then "return results"; quit on a
\* lost connection raises, and the exception ends main without a report
send_file_quit ==
    /\ prog = "fds" /\ pc = "loop" /\ idx > Len(delivery_list)
    /\ transportOps' = transportOps + 1
    /\ \E o \in {"ok", "lost"} :
         /\ session = "Closed" => o = "lost"
         /\ IF o = "ok"
            THEN /\ quits' = quits + 1
                 /\ session' = after_quit(session)
                 /\ pc' = "report"
                 /\ UNCHANGED <<result, exitCode>>
            ELSE /\ session' = "Closed"
                 /\ Exit(1, "aborted")
                 /\ UNCHANGED quits
    /\ UNCHANGED <<inputVars, attachVars, fileVars, sourceRead, loopVars, fdsVars, esVars,
                   leaked, connects>>

\* main: "Report results" and "Exit with appropriate code"
fds_report ==
    /\ prog = "fds" /\ pc = "report"
    /\ Exit(IF Len(failed) = 0 THEN 0 ELSE 1, "report")
    /\ UNCHANGED <<inputVars, attachVars, fileVars, sourceRead, loopVars, fdsVars, esVars,
                   sessionVars>>

\* main: except KeyboardInterrupt; the interrupt passes every
\* "except Exception" of send_file on its way
fds_interrupt ==
    /\ prog = "fds" /\ pc # "done"
    /\ Exit(1, "cancelled")
    /\ UNCHANGED <<inputVars, attachVars, fileVars, sourceRead, loopVars, fdsVars, esVars,
                   sessionVars>>

\* ---------------------------------------------------------- the file system
\* another process replaces, removes or protects the file during the run;
\* a change shows when the program next opens the file, which it does at the
\* head of each pass of its loop, so that is where the change is taken
file_changes ==
    /\ pc \in {"loop", "es_loop"}
    /\ fileChanges < MaxFileChanges
    /\ fileChanges' = fileChanges + 1
    /\ \/ fileState' \in FileStates \ {fileState} /\ UNCHANGED fileBytes
       \/ /\ fileState = "ok"
          /\ fileBytes' \in FileContents \ {fileBytes}
          /\ UNCHANGED fileState
    /\ UNCHANGED <<inputVars, attachVars, sourceRead, loopVars, fdsVars, esVars,
                   sessionVars, pc, result, exitCode>>

\* ------------------------------------------------------ email_sender.py: main
\* validate_config: the placeholders of EMAIL_CONFIG must have been replaced
validate_config(c) == c

\* main: "Validate configuration"
es_validate_config ==
    /\ prog = "es" /\ pc = "validate_config"
    /\ IF validate_config(credsOk)
       THEN pc' = "load_recipients" /\ UNCHANGED <<result, exitCode>>
       ELSE Exit(1, "validation")
    /\ UNCHANGED <<inputVars, attachVars, fileVars, sourceRead, loopVars, fdsVars, esVars,
                   sessionVars>>

\* main: "Load recipients"; the ValueError of an empty list is caught by
\* main, which returns False
es_load ==
    /\ prog = "es" /\ pc = "load_recipients"
    /\ sourceRead' = TRUE
    /\ LET recipients == load_recipients(source)
       IN IF recipients = <<>>
          THEN Exit(1, "validation") /\ UNCHANGED delivery_list
          ELSE /\ delivery_list' = recipients
               /\ pc' = "get_files_to_send"
               /\ UNCHANGED <<result, exitCode>>
    /\ UNCHANGED <<inputVars, attachVars, fileVars, idx, attempted, sent, fdsVars, esVars,
                   sessionVars>>

\* main: "Get files to send": a missing folder raises, a folder without
\* regular files gives [], and main returns False in both cases
es_get_files ==
    /\ prog = "es" /\ pc = "get_files_to_send"
    /\ IF fileState \in {"missing", "notfile"}
       THEN Exit(1, "validation") /\ UNCHANGED esVars
       ELSE /\ successful_sends' = 0
            /\ failed_sends' = 0
            /\ pc' = "es_loop"
            /\ UNCHANGED <<result, exitCode>>
    /\ UNCHANGED <<inputVars, attachVars, fileVars, sourceRead, loopVars, fdsVars,
                   sessionVars>>

\* main: one pass of "for recipient in recipients" up to the call of
\* send_email: create_email_message, then attach_file_to_email for each file
es_prepare ==
    /\ prog = "es" /\ pc = "es_loop" /\ idx <= Len(delivery_list)
    /\ attempted' = Append(attempted, delivery_list[idx])
    /\ IF fileState # "ok"
       THEN /\ failed_sends' = failed_sends + 1
            /\ idx' = idx + 1
            /\ UNCHANGED <<pc, fileReads, msgBytes>>
       ELSE /\ fileReads' = fileReads + 1
            /\ msgBytes' = attachment_bytes(fileBytes,
                              IF sentBytes = <<>> THEN fileBytes
                              ELSE sentBytes[1])
            /\ pc' = "es_connect"
            /\ UNCHANGED <<failed_sends, idx>>
    /\ UNCHANGED <<inputVars, sentBytes, fileVars, sourceRead, delivery_list,
                   sent, fdsVars, successful_sends, sessionVars, result,
                   exitCode>>

\* send_email returned False: main counts the failure and goes on; the
\* server object is dropped with whatever connection it still holds
es_send_failed(after) ==
    /\ failed_sends' = failed_sends + 1
    /\ idx' = idx + 1
    /\ pc' = "es_loop"
    /\ leaked' = IF after # "Closed" THEN leaked + 1 ELSE leaked
    /\ session' = "Closed"
    /\ UNCHANGED successful_sends

\* send_email: server = smtplib.SMTP(smtp_server, smtp_port)
es_connect ==
    /\ prog = "es" /\ pc = "es_connect"
    /\ connects' = connects + 1
    /\ transportOps' = transportOps + 1
    /\ \E o \in Outcomes :
         IF o = "ok"
         THEN /\ session' = "Opening"
              /\ pc' = "es_starttls"
              /\ UNCHANGED <<idx, esVars, leaked>>
         ELSE es_send_failed("Closed")
    /\ UNCHANGED <<inputVars, attachVars, fileVars, sourceRead, delivery_list, attempted,
                   sent, fdsVars, quits, result, exitCode>>

\* send_email: server.starttls()
es_starttls ==
    /\ prog = "es" /\ pc = "es_starttls"
    /\ transportOps' = transportOps + 1
    /\ \E o \in Outcomes :
         IF o = "ok"
         THEN /\ pc' = "es_login"
              /\ UNCHANGED <<idx, esVars, leaked, session>>
         ELSE es_send_failed(AfterFailure(session, o))
    /\ UNCHANGED <<inputVars, attachVars, fileVars, sourceRead, delivery_list, attempted,
                   sent, fdsVars, connects, quits, result, exitCode>>

\* send_email: server.login(sender_email, sender_password)
es_login ==
    /\ prog = "es" /\ pc = "es_login"
    /\ transportOps' = transportOps + 1
    /\ \E o \in Outcomes :
         IF o = "ok"
         THEN /\ session' = after_login(session)
              /\ pc' = "es_sendmail"
              /\ UNCHANGED <<idx, esVars, leaked>>
         ELSE es_send_failed(AfterFailure(session, o))
    /\ UNCHANGED <<inputVars, attachVars, fileVars, sourceRead, delivery_list, attempted,
                   sent, fdsVars, connects, quits, result, exitCode>>

\* send_email: server.sendmail(sender_email, msg['To'], text)
es_sendmail ==
    /\ prog = "es" /\ pc = "es_sendmail"
    /\ transportOps' = transportOps + 1
    /\ \E o \in Outcomes :
         IF o = "ok"
         THEN /\ sent' = Append(sent, delivery_list[idx])
              /\ sentBytes' = Append(sentBytes, msgBytes)
              /\ pc' = "es_quit"
              /\ UNCHANGED <<idx, esVars, leaked, session>>
         ELSE es_send_failed(AfterFailure(session, o)) /\ UNCHANGED <<sent, sentBytes>>
    /\ UNCHANGED <<inputVars, fileReads, msgBytes, fileVars, sourceRead, delivery_list, attempted,
                   fdsVars, connects, quits, result, exitCode>>

\* send_email: server.quit() and "return True"; main counts the success
es_quit ==
    /\ prog = "es" /\ pc = "es_quit"
    /\ transportOps' = transportOps + 1
    /\ \E o \in {"ok", "lost"} :
         IF o = "ok"
         THEN /\ quits' = quits + 1
              /\ session' = "Closed"
              /\ successful_sends' = successful_sends + 1
              /\ idx' = idx + 1
              /\ pc' = "es_loop"
              /\ UNCHANGED <<failed_sends, leaked>>
         ELSE es_send_failed("Closed") /\ UNCHANGED quits
    /\ UNCHANGED <<inputVars, attachVars, fileVars, sourceRead, delivery_list, attempted,
                   sent, fdsVars, connects, result, exitCode>>

\* main: "Summary", return successful_sends > 0, and the last line of the
\* script: sys.exit(0 if success else 1)
es_summary ==
    /\ prog = "es" /\ pc = "es_loop" /\ idx > Len(delivery_list)
    /\ Exit(IF successful_sends > 0 THEN 0 ELSE 1, "report")
    /\ UNCHANGED <<inputVars, attachVars, fileVars, sourceRead, loopVars, fdsVars, esVars,
                   sessionVars>>

\* ------------------------------------------------------ the mail server
\* the server stops answering during a call on the transport: every
\* smtplib.SMTP(host, port) is made without a timeout, so the call in
\* progress waits for good (only Ctrl-C ends it)
transport_blocks ==
    /\ \/ pc \in {"connect", "es_connect"}
       \/ /\ pc \in {"starttls", "login", "es_starttls", "es_login",
                     "es_sendmail", "es_quit"}
          /\ session # "Closed"
       \/ /\ pc = "loop" /\ session # "Closed"
          /\ idx <= Len(delivery_list) => fileState = "ok"
    /\ pc' = "blocked"
    /\ transportOps' = transportOps + 1
    /\ connects' = IF pc \in {"connect", "es_connect"}
                   THEN connects + 1 ELSE connects
    /\ attempted' = IF pc = "loop" /\ idx <= Len(delivery_list)
                    THEN Append(attempted, delivery_list[idx]) ELSE attempted
    /\ fileReads' = IF pc = "loop" /\ idx <= Len(delivery_list)
                    THEN fileReads + 1 ELSE fileReads
    /\ UNCHANGED <<inputVars, msgBytes, sentBytes, fileVars, sourceRead, delivery_list, idx, sent,
                   fdsVars, esVars, session, leaked, quits, result, exitCode>>

\* ------------------------------------------------------------ specification
Next ==
    \/ fds_validate
    \/ fds_load
    \/ send_file_begin
    \/ send_file_connect
    \/ send_file_starttls
    \/ send_file_login
    \/ send_file_iter
    \/ send_file_quit
    \/ fds_report
    \/ fds_interrupt
    \/ file_changes
    \/ es_validate_config
    \/ es_load
    \/ es_get_files
    \/ es_prepare
    \/ es_connect
    \/ es_starttls
    \/ es_login
    \/ es_sendmail
    \/ es_quit
    \/ es_summary
    \/ transport_blocks

Spec == Init /\ [][Next]_vars

\* the steps the interpreter takes by itself; an interrupt, a change of the
\* file and a server that stops answering are up to the environment
ProgramStep ==
    \/ fds_validate
    \/ fds_load
    \/ send_file_begin
    \/ send_file_connect
    \/ send_file_starttls
    \/ send_file_login
    \/ send_file_iter
    \/ send_file_quit
    \/ fds_report
    \/ es_validate_config
    \/ es_load
    \/ es_get_files
    \/ es_prepare
    \/ es_connect
    \/ es_starttls
    \/ es_login
    \/ es_sendmail
    \/ es_quit
    \/ es_summary

\* a running program keeps running
FairSpec == Spec /\ WF_vars(ProgramStep)

\* ------------------------------------------ specification of the two loaders
\* a recipient source of any of the line shapes, and a call of the loader
InitLoad ==
    /\ prog \in {"fds", "es"}
    /\ source \in LoadSources
    /\ pc = "load_call"
    /\ credsOk = TRUE
    /\ fileState = "ok"
    /\ fileChanges = 0
    /\ fileBytes = "v1"
    /\ fileReads = 0
    /\ msgBytes = "none"
    /\ sentBytes = <<>>
    /\ sourceRead = FALSE
    /\ delivery_list = <<>>
    /\ idx = 1
    /\ successful = <<>>
    /\ failed = <<>>
    /\ total = 0
    /\ successful_sends = 0
    /\ failed_sends = 0
    /\ session = "Closed"
    /\ leaked = 0
    /\ connects = 0
    /\ quits = 0
    /\ transportOps = 0
    /\ attempted = <<>>
    /\ sent = <<>>
    /\ result = "running"
    /\ exitCode = -1

\* FileDeliveryService.load_delivery_list(path) returns its list
call_load_delivery_list ==
    /\ prog = "fds" /\ pc = "load_call"
    /\ sourceRead' = TRUE
    /\ delivery_list' = load_delivery_list(source)
    /\ pc' = "loaded"
    /\ UNCHANGED <<inputVars, attachVars, fileVars, idx, attempted, sent, fdsVars, esVars,
                   sessionVars, result, exitCode>>

\* load_recipients(path) returns its list, or raises ValueError on an empty one
call_load_recipients ==
    /\ prog = "es" /\ pc = "load_call"
    /\ sourceRead' = TRUE
    /\ LET recipients == load_recipients(source)
       IN IF recipients = <<>>
          THEN pc' = "raised" /\ UNCHANGED delivery_list
          ELSE pc' = "loaded" /\ delivery_list' = recipients
    /\ UNCHANGED <<inputVars, attachVars, fileVars, idx, attempted, sent, fdsVars, esVars,
                   sessionVars, result, exitCode>>

NextLoad ==
    \/ call_load_delivery_list
    \/ call_load_recipients

SpecLoad == InitLoad /\ [][NextLoad]_vars

\* ------------------------------------------------------------------- claims
\* the list the loader of the running program makes of the recipient source
Loaded == IF prog = "fds" THEN load_delivery_list(source) ELSE load_recipients(source)

\* a report has been handed to the caller of the delivery run
ReportReturned == pc = "report" \/ result = "report"

\* C1: a compose or send failure for the recipient at position i is recorded
\* and the loop goes on with position i+1; a run that returns a report has
\* attempted every recipient of the list, in every pattern of failures.
C1_BatchContinues ==
    [][ /\ (/\ pc \in {"loop", "es_loop", "es_connect", "es_starttls",
                       "es_login", "es_sendmail", "es_quit"}
            /\ (Len(failed') > Len(failed) \/ failed_sends' > failed_sends))
           => (pc' \in {"loop", "es_loop"} /\ idx' = idx + 1
               /\ result' = "running")
        /\ (pc' = "report" \/ result' = "report") => attempted' = delivery_list'
      ]_vars

\* the first recipient failed, the second was still sent to, and the report
\* was returned
C1_Witness ==
    /\ prog = "fds" /\ result = "report"
    /\ Len(delivery_list) >= 2
    /\ delivery_list[1] # delivery_list[2]
    /\ Len(failed) >= 1 /\ failed[1].email = delivery_list[1]
    /\ Len(successful) >= 1 /\ successful[1] = delivery_list[2]

\* C2: every report returned satisfies
\* len(successes) + len(failures) = totalAttempted = len(recipients); in
\* email_sender successful_sends + failed_sends = len(recipients) at the
\* summary.
C2_ReportCountsAddUp ==
    /\ (prog = "fds" /\ ReportReturned)
          => /\ Len(successful) + Len(failed) = total
             /\ total = Len(delivery_list)
    /\ (prog = "es" /\ ReportReturned)
          => successful_sends + failed_sends = Len(delivery_list)

\* a report over three recipients with both successes and failures
C2_Witness ==
    /\ prog = "fds" /\ result = "report"
    /\ total = 3 /\ Len(successful) = 1 /\ Len(failed) = 2

\* C3: when send_file returns a report, the one session it opened has been
\* closed by exactly one quit, however many sends failed.
C3_ClosedOnceBeforeReport ==
    (prog = "fds" /\ ReportReturned)
       => (session = "Closed" /\ quits = 1 /\ connects = 1 /\ leaked = 0)

\* every send of the run failed and the report was still returned after quit
C3_Witness ==
    /\ prog = "fds" /\ result = "report"
    /\ total >= 2 /\ Len(failed) = total /\ successful = <<>>
    /\ \E i \in 1..Len(failed) : failed[i].error = "rejected"
    /\ session = "Closed" /\ quits = 1

\* C4: a run that ends while its session is open (an abort after the open,
\* or an interrupt during the send loop) closes the session before it ends.
C4_SessionReleasedOnEveryExit ==
    [][ (prog = "fds" /\ session = "Authenticated" /\ pc' = "done")
           => session' = "Closed" ]_vars

\* C5: when file validation fails, the run ends with the recipient source
\* unread and without any operation on the transport.
C5_ValidationBeforeSourceAndSession ==
    [][ (pc \in {"validate_file", "get_files_to_send"} /\ result' = "validation")
           => (~sourceRead' /\ transportOps' = 0 /\ connects' = 0) ]_vars

\* C6: when the recipient source yields no valid address, the run fails with
\* a validation error and makes no call on the transport.
C6_EmptyListNoTransport ==
    (sourceRead /\ Loaded = <<>>)
       => /\ result = "validation" /\ exitCode = 1
          /\ transportOps = 0 /\ connects = 0 /\ sent = <<>>

\* a source with lines in it, none of them an address, has been read
C6_Witness ==
    /\ prog = "fds" /\ sourceRead
    /\ Len(source) >= 2 /\ Loaded = <<>>
    /\ pc = "done" /\ result = "validation"

\* an address with exactly one '@', a local part before it and a domain
\* after it
WellFormed(a) ==
    /\ Cardinality({i \in 1..Len(a) : a[i] = "@"}) = 1
    /\ a[1] # "@"
    /\ a[Len(a)] # "@"

\* C7: the loaded list holds each distinct valid address exactly once: no
\* well-formed address is at two positions of the list.
C7_LoadedListHasNoDuplicates ==
    pc = "loaded"
       => \A i, j \in 1..Len(delivery_list) :
             (i # j /\ WellFormed(delivery_list[i]))
                => delivery_list[i] # delivery_list[j]

\* a line that is an address line for the recipient source format
IsAddressLine(l) ==
    /\ strip(l) # <<>>
    /\ ~startswith(strip(l), "#")
    /\ contains(l, "@")

\* C8: blank lines and '#' lines never contribute an address, even with an
\* '@' in them; a line without '@' is left out and every address line before
\* and after it is still loaded.
C8_CommentsBlanksAndBadLinesSkipped ==
    /\ pc = "loaded"
          => /\ \A i \in 1..Len(delivery_list) :
                   /\ delivery_list[i] # <<>>
                   /\ ~startswith(delivery_list[i], "#")
                   /\ contains(delivery_list[i], "@")
             /\ \A k \in 1..Len(source) :
                   IsAddressLine(source[k])
                      => \E i \in 1..Len(delivery_list) :
                            delivery_list[i] = strip(source[k])
    /\ pc = "raised" => \A k \in 1..Len(source) : ~IsAddressLine(source[k])

\* C9: the exit code is 0 exactly when the run completed with a report
\* without failures; it is non-zero after any failure, validation failure or
\* abort.
C9_ExitCodeZeroIffAllSucceeded ==
    pc = "done"
       => (exitCode = 0
             <=> /\ result = "report"
                 /\ IF prog = "fds" THEN failed = <<>> ELSE failed_sends = 0)

\* C10: when a handshake step (connect, STARTTLS, login) fails, no connection
\* made by an earlier step stays open, and nothing is sent.
C10_FailedOpenLeavesClosed ==
    [][ (\/ pc \in {"connect", "starttls", "login"} /\ result' = "aborted"
         \/ /\ pc \in {"es_connect", "es_starttls", "es_login"}
            /\ failed_sends' > failed_sends)
           => (session' = "Closed" /\ leaked' = leaked /\ sent' = sent) ]_vars

\* C11: a run that aborts instead of returning a report has transmitted
\* no message; outcomes of attempted recipients are never lost to an abort.
C11_AbortMeansNothingSent ==
    (prog = "fds" /\ result = "aborted") => (sent = <<>> /\ attempted = <<>>)

\* C12: a run makes one connect/login handshake, however many recipients
\* it sends to.
C12_OneHandshakePerRun == connects <= 1

\* C14: every loaded address has exactly one '@' with a local part before
\* it and a domain after it.
C14_LoadedAddressesWellFormed ==
    pc = "loaded"
       => \A i \in 1..Len(delivery_list) : WellFormed(delivery_list[i])

\* s can be had from t by leaving entries of t out
RECURSIVE IsSubSeq(_, _)
IsSubSeq(s, t) ==
    IF s = <<>> THEN TRUE
    ELSE IF t = <<>> THEN FALSE
    ELSE IF Head(s) = Head(t) THEN IsSubSeq(Tail(s), Tail(t))
    ELSE IsSubSeq(s, Tail(t))

\* the addresses of results['failed'], in order
FailedEmails == [i \in 1..Len(failed) |-> failed[i].email]

\* C16: the send attempts of send_file follow the recipient list: each entry
\* once, in list order; in a returned report successes and failures are
\* each a subsequence of the list in that order.
C16_AttemptsFollowListOrder ==
    /\ (prog = "fds" /\ pc = "loop")
          => attempted = SubSeq(delivery_list, 1, idx - 1)
    /\ (prog = "fds" /\ ReportReturned)
          => /\ attempted = delivery_list
             /\ IsSubSeq(successful, delivery_list)
             /\ IsSubSeq(FailedEmails, delivery_list)

\* three recipients, not all the same, all accepted: successes are the list
C16_Witness ==
    /\ prog = "fds" /\ result = "report"
    /\ Len(delivery_list) = 3
    /\ delivery_list[1] # delivery_list[2]
    /\ successful = delivery_list
    /\ failed = <<>>
    /\ exitCode = 0

\* C15: no run blocks for good: whatever the transport does, the run
\* comes to its end.
C15_RunEventuallyReturns == <>(pc = "done")

\* this step calls server.sendmail
SendIssued ==
    /\ transportOps' = transportOps + 1
    /\ \/ prog = "fds" /\ pc = "loop" /\ idx <= Len(delivery_list)
       \/ prog = "es" /\ pc = "es_sendmail"

\* C17 as stated: no send is issued unless the session is Authenticated.
C17_SendOnlyWhenAuthenticated ==
    [][ SendIssued => session = "Authenticated" ]_vars

\* C17 as amended: a message is transmitted only on an Authenticated
\* session; a send is never issued before the handshake is complete or after
\* quit, and a send issued on a connection the server has dropped fails and
\* is recorded as that recipient's failure.
C17_TransmitOnlyWhenAuthenticated ==
    [][ /\ Len(sent') > Len(sent)
           => (session = "Authenticated" /\ session' = "Authenticated")
        /\ SendIssued
           => /\ session # "Opening"
              /\ prog = "fds" => quits = 0
              /\ session = "Closed"
                    => (sent' = sent /\ Len(failed') = Len(failed) + 1)
      ]_vars

\* one message went out, then the connection was lost and the two sends
\* after it were issued on the dead session
C17_Witness ==
    /\ prog = "fds" /\ pc = "loop"
    /\ Len(sent) = 1 /\ Len(failed) = 2
    /\ failed[1].error = "lost" /\ failed[2].error = "lost"
    /\ session = "Closed" /\ quits = 0

====
